---- MODULE Spec2Model ----
(***************************************************************************)
(* kerplunk: the lane-traffic game of kerplunk.py as a state machine.      *)
(*                                                                         *)
(* Units.  All quantities are integers in fixed units:                     *)
(*   y (Car.y)                 micro-rows   (RowUnit per terminal row)     *)
(*   dt, spawn_timer           centiseconds (SecUnit per second)           *)
(*   global_speed              thousandths  (SpeedUnit = 1.0)              *)
(*   BASE_LANE_SPEEDS          tenths of a row per second                  *)
(* so that speed * dt = BASE * global_speed * dt is exact in micro-rows.   *)
(* A product by 1.22 is rounded to the nearest thousandth, as the float    *)
(* product is rounded to the nearest double.                               *)
(*                                                                         *)
(* The pseudo-random source is a tape of numerators u of random() = u/     *)
(* RandDen, chosen once when the process starts (the seed) and read in     *)
(* order by randrange, choice and uniform.                                 *)
(***************************************************************************)
EXTENDS Integers, Sequences, FiniteSets, TLC

\* ------------------------------------------------------------------ units
SpeedUnit == 10 * 100
SecUnit   == 10 * 10
RowUnit   == 10 * SpeedUnit * SecUnit
RandDen   == 8 * 10

\* ------------------------------------------------------- module constants
LANE_COUNT == 5
CAR_CHARS == <<"<#>", "[=]", "<o>">>
SPAWN_INTERVAL == 80
INITIAL_DISTANCE_MAX == 8
BASE_LANE_SPEEDS == <<9, 12, 16, 10, 14>>
SEED_CARS == 6
MIN_SPAWN_INTERVAL == 15
DT_CLAMP == 20
RAMP_EVERY == 10
RAMP_PERCENT == 122

\* ----------------------------------------------------------------- bounds
\* Car objects constructed in one run of the wide specification.
MaxCars == 8
\* Car objects constructed in one run of the long specification.
MaxCarsLong == 110
\* The cars made in a run of SpecLive.
MaxCarsLive == 24

\* ---------------------------------------------------------------- helpers
Max(a, b) == IF a >= b THEN a ELSE b
Min(a, b) == IF a <= b THEN a ELSE b
CeilDiv(n, d) == -((-n) \div d)

\* Mutant of clamp: the upper bound taken as exclusive.
clampExclusive(v, a, b) == Max(a, Min(b + 1, v))
clamp(v, a, b) == Max(a, Min(b, v))

\* int(x): truncation toward zero, in rows.
PyInt(y) == IF y >= 0 THEN y \div RowUnit ELSE -((-y) \div RowUnit)

\* Mutant of PyRound: a tie rounded up.
PyRoundHalfUp(y) == (2 * y + RowUnit) \div (2 * RowUnit)

\* round(x): to the nearest row, a tie to the even row.
PyRound(y) ==
    LET f == y \div RowUnit
        r == y % RowUnit
    IN  IF 2 * r < RowUnit THEN f
        ELSE IF 2 * r > RowUnit THEN f + 1
        ELSE IF f % 2 = 0 THEN f ELSE f + 1

\* Mutant of randrange: the upper bound included, as random.randint.
randint(a, b, u) == a + (u * (b - a + 1)) \div RandDen

\* random.randrange(a, b) for random() = u / RandDen.
randrange(a, b, u) == a + (u * (b - a)) \div RandDen

\* random.choice(seq).
choice(seq, u) == seq[1 + (u * Len(seq)) \div RandDen]

\* random.uniform(a, b) = a + (b - a) * random(), a and b rationals <<n, d>>;
\* the result is the point of the integer grid of [a, b] the draw selects.
uniform(a, b, u) ==
    LET lo == CeilDiv(a[1], a[2])
        hi == b[1] \div b[2]
    IN  lo + ((hi - lo) * u) \div RandDen

player_row(h) == h - 3

\* Mutant of spawn_interval: the factor 0.9 left out.
spawn_interval_plain(gs) ==
    IF SPAWN_INTERVAL * SpeedUnit < MIN_SPAWN_INTERVAL * gs
    THEN <<MIN_SPAWN_INTERVAL, 1>>
    ELSE <<SPAWN_INTERVAL * SpeedUnit, gs>>

\* spawn_interval = max(0.15, SPAWN_INTERVAL / (global_speed * 0.9)), a
\* rational <<n, d>> of centiseconds.
spawn_interval(gs) ==
    IF SPAWN_INTERVAL * SpeedUnit * 10 < MIN_SPAWN_INTERVAL * 9 * gs
    THEN <<MIN_SPAWN_INTERVAL, 1>>
    ELSE <<SPAWN_INTERVAL * SpeedUnit * 10, 9 * gs>>

\* lane_speeds = [s * self.global_speed for s in BASE_LANE_SPEEDS]
lane_speeds(gs) == [i \in 1..LANE_COUNT |-> BASE_LANE_SPEEDS[i] * gs]

\* Mutant of Ramp: 0.22 added instead of a factor of 1.22.
RampAdd(gs) == gs + ((RAMP_PERCENT - 100) * SpeedUnit) \div 100

\* Mutant of Ramp: a division by 1.22.
RampDivide(gs) == (gs * 100) \div RAMP_PERCENT

\* Mutant of Ramp: the factor 0.22.
RampFraction(gs) == (gs * (RAMP_PERCENT - 100)) \div 100

\* self.global_speed *= 1.22
Ramp(gs) == (gs * RAMP_PERCENT + 50) \div 100

\* ------------------------------------------------------------ random tapes
\* Each tape is the sequence random() yields for one seed; it is read
\* cyclically.
\* The spawns of the last tape before its car in the player's start lane.
TunnelAfter == 88

Zeros(n) == [i \in 1..n |-> 0]

Tapes == <<
    \* seeds in lanes 0, 2, 4, 2, 1, 3 at distances 0, 0.3, 7.9, 0.9, 0, 1.9;
    \* then spawns with the timer at both ends of its range
    << 0, 0, 0,   40, 40, 3,   79, 79, 79,   40, 0, 9,   16, 79, 0,   48, 40, 19,
       0, 40, 40, 3,   79, 16, 0, 20 >>,
    \* every draw at the far end of its range
    << 79 >>,
    \* every draw at the near end of its range
    << 0 >>,
    \* five seeds at distance 0, one in lane 0 at distance 4.2; then spawns
    \* at distance 0 with the shortest timer
    << 0, 0, 0,   16, 0, 0,   32, 40, 0,   48, 40, 0,   64, 79, 0,   0, 79, 42,
       0, 32, 0, 0,   0, 0, 40, 0,   0, 64, 79, 0,   0, 16, 0, 0,   0, 48, 40, 0 >>,
    \* seeds and TunnelAfter spawns in lane 0 at distance 0 with the shortest
    \* timer, then one spawn in lane 2 at distance 2.6
    Zeros(3 * SEED_CARS + 4 * TunnelAfter) \o << 0, 40, 0, 26 >>
  >>

\* ------------------------------------------------------------------ state
VARIABLES
    pc,            \* position in Game.loop
    tape,          \* the seed: which tape random() reads
    rpos,          \* position of random() in the tape
    height,        \* self.height
    spawn_timer,   \* self.spawn_timer
    cars,          \* self.cars: sequence of Car
    made,          \* Car objects constructed so far (identity of the next)
    passed,        \* self.passed
    global_speed,  \* self.global_speed
    player_lane,   \* self.player_lane
    running,       \* self.running
    score,         \* self.score
    dt,            \* the dt of the current frame
    before         \* history: the fields as the latest update found them

vars == <<pc, tape, rpos, height, spawn_timer, cars, made, passed,
          global_speed, player_lane, running, score, dt, before>>

\* The fields an update can change.
Snapshot ==
    [spawn_timer |-> spawn_timer, cars |-> cars, made |-> made, passed |-> passed,
     global_speed |-> global_speed, running |-> running, score |-> score]

\* The k-th next value of random(), k = 0, 1, ...
Rand(k) == Tapes[tape][1 + ((rpos + k) % Len(Tapes[tape]))]

\* Car(lane, y, art); id stands for the identity of the object.
Car(id, lane, y, art) == [id |-> id, lane |-> lane, y |-> y, art |-> art]

\* Game.__init__
Init ==
    /\ pc = "setup"
    /\ tape \in 1..Len(Tapes)
    /\ rpos = 0
    /\ height = 24
    /\ spawn_timer = 0
    /\ cars = <<>>
    /\ made = 0
    /\ passed = 0
    /\ global_speed = SpeedUnit
    /\ player_lane = LANE_COUNT \div 2
    /\ running = TRUE
    /\ score = 0
    /\ dt = 0
    /\ before = Snapshot

\* Game.spawn_car with random() reading the tape from offset k: the new Car.
spawn_car(k) ==
    LET lane == randrange(0, LANE_COUNT, Rand(k))
        art  == choice(CAR_CHARS, Rand(k + 1))
        y    == -uniform(<<0, 1>>, <<INITIAL_DISTANCE_MAX * RowUnit, 1>>, Rand(k + 2))
    IN  Car(made, lane, y, art)

\* Game.setup_dimensions: the terminal reports h lines.
SetupDimensions(H) ==
    /\ pc = "setup"
    /\ \E h \in H : height' = h
    /\ pc' = "seed"
    /\ UNCHANGED <<tape, rpos, spawn_timer, cars, made, passed, global_speed,
                   player_lane, running, score, dt, before>>

\* for _ in range(6): self.spawn_car()
SeedCar ==
    /\ pc = "seed"
    /\ made < SEED_CARS
    /\ cars' = Append(cars, spawn_car(0))
    /\ made' = made + 1
    /\ rpos' = (rpos + 3) % Len(Tapes[tape])
    /\ UNCHANGED <<pc, tape, height, spawn_timer, passed, global_speed,
                   player_lane, running, score, dt, before>>

\* while self.running: dt = min(now - last_time, 0.2)
FrameStart(E, cap) ==
    /\ pc = "seed" \/ pc = "frame"
    /\ pc = "seed" => made = SEED_CARS
    /\ running
    /\ made < cap
    /\ \E e \in E : dt' = Min(e, DT_CLAMP)
    /\ pc' = "input"
    /\ UNCHANGED <<tape, rpos, height, spawn_timer, cars, made, passed,
                   global_speed, player_lane, running, score, before>>

\* Game.handle_input: getch() returns key (or -1 for none).
HandleInput(K) ==
    /\ pc = "input"
    /\ \E key \in K :
         /\ running' = IF key = "q" THEN FALSE ELSE running
         /\ player_lane' =
              IF key = "left" THEN clamp(player_lane - 1, 0, LANE_COUNT - 1)
              ELSE IF key = "right" THEN clamp(player_lane + 1, 0, LANE_COUNT - 1)
              ELSE player_lane
    /\ pc' = "update"
    /\ UNCHANGED <<tape, rpos, height, spawn_timer, cars, made, passed,
                   global_speed, score, dt, before>>

\* The loop ends: the exit message.
GameOver ==
    /\ pc = "frame"
    /\ ~running
    /\ pc' = "over"
    /\ UNCHANGED <<tape, rpos, height, spawn_timer, cars, made, passed,
                   global_speed, player_lane, running, score, dt, before>>

\* int(car.y) >= self.player_row() + 1
HasPassed(y, h) == PyInt(y) >= player_row(h) + 1

\* int(round(car.y)) == self.player_row() and car.lane == self.player_lane
Collides(car, h, pl) == PyRound(car.y) = player_row(h) /\ car.lane = pl

\* Mutant of MoveCar: the car moved up the screen.
MoveCarBack(car, speeds, d) == [car EXCEPT !.y = @ - speeds[car.lane + 1] * d]

\* car.y += speed * dt
MoveCar(car, speeds, d) == [car EXCEPT !.y = @ + speeds[car.lane + 1] * d]

\* Mutant of CountPass: passed tested before it is incremented.
CountPassRampFirst(acc, id) ==
    [acc EXCEPT !.to_remove = @ \cup {id},
                !.passed = @ + 1,
                !.score = @ + 1,
                !.global_speed =
                    IF acc.passed % RAMP_EVERY = 0 THEN Ramp(@) ELSE @]

\* Mutant of CountPass: the score left as it was.
CountPassNoScore(acc, id) ==
    [acc EXCEPT !.to_remove = @ \cup {id},
                !.passed = @ + 1,
                !.global_speed =
                    IF (acc.passed + 1) % RAMP_EVERY = 0 THEN Ramp(@) ELSE @]

\* self.passed += 1; self.score += 1; if self.passed % 10 == 0: ramp
CountPass(acc, id) ==
    [acc EXCEPT !.to_remove = @ \cup {id},
                !.passed = @ + 1,
                !.score = @ + 1,
                !.global_speed =
                    IF (acc.passed + 1) % RAMP_EVERY = 0 THEN Ramp(@) ELSE @]

\* Mutant of LoopBody: the speed taken from the multiplier as ramped so far.
LoopBodyLiveSpeed(acc, car, speeds, d, h) ==
    LET moved == MoveCar(car, lane_speeds(acc.global_speed), d)
        acc1  == [acc EXCEPT !.cars = Append(@, moved)]
    IN  IF HasPassed(moved.y, h) THEN CountPass(acc1, moved.id) ELSE acc1

\* Mutant of LoopBody: the car tested for passing where it stood, then moved.
LoopBodyTestFirst(acc, car, speeds, d, h) ==
    LET moved == MoveCar(car, speeds, d)
        acc1  == [acc EXCEPT !.cars = Append(@, moved)]
    IN  IF HasPassed(car.y, h) THEN CountPass(acc1, moved.id) ELSE acc1

\* One iteration of "for car in self.cars": move, then test for passing.
LoopBody(acc, car, speeds, d, h) ==
    LET moved == MoveCar(car, speeds, d)
        acc1  == [acc EXCEPT !.cars = Append(@, moved)]
    IN  IF HasPassed(moved.y, h) THEN CountPass(acc1, moved.id) ELSE acc1

\* The loop over self.cars, from index i on.
RECURSIVE MoveLoop(_, _, _, _, _, _)
MoveLoop(cs, i, acc, speeds, d, h) ==
    IF i > Len(cs) THEN acc
    ELSE MoveLoop(cs, i + 1, LoopBody(acc, cs[i], speeds, d, h), speeds, d, h)

\* Mutant of RemovePassed: the removal stops after the first car.
RemovePassedOnce(cs, to_remove) ==
    SelectSeq(cs, LAMBDA c :
        c.id \notin to_remove \/ \E x \in to_remove : x < c.id)

\* for c in to_remove: if c in self.cars: self.cars.remove(c)
RemovePassed(cs, to_remove) == SelectSeq(cs, LAMBDA c : c.id \notin to_remove)

\* The collision check over the cars left: the new value of self.running.
CollisionCheck(cs, h, pl, run) ==
    IF \E i \in 1..Len(cs) : Collides(cs[i], h, pl) THEN FALSE ELSE run

\* Mutant of Judge: the collision check before the removal.
JudgeCollideFirst(acc, h, pl, run) ==
    [cars |-> RemovePassed(acc.cars, acc.to_remove),
     running |-> CollisionCheck(acc.cars, h, pl, run)]

\* The end of update: the removal of to_remove, then the collision check.
Judge(acc, h, pl, run) ==
    LET left == RemovePassed(acc.cars, acc.to_remove)
    IN  [cars |-> left, running |-> CollisionCheck(left, h, pl, run)]

\* if self.spawn_timer <= 0.0
SpawnDue(timer) == timer <= 0

\* random.uniform(spawn_interval * 0.6, spawn_interval * 1.4)
NextTimer(interval, u) ==
    uniform(<<6 * interval[1], 10 * interval[2]>>,
            <<14 * interval[1], 10 * interval[2]>>, u)

\* Game.update(dt)
Update ==
    /\ pc = "update"
    /\ LET t1       == spawn_timer - dt
           interval == spawn_interval(global_speed)
           spawn    == SpawnDue(t1)
           cars1    == IF spawn THEN Append(cars, spawn_car(1)) ELSE cars
           acc0     == [cars |-> <<>>, to_remove |-> {}, passed |-> passed,
                        score |-> score, global_speed |-> global_speed]
           acc      == MoveLoop(cars1, 1, acc0, lane_speeds(global_speed), dt, height)
           end      == Judge(acc, height, player_lane, running)
       IN  /\ spawn_timer' = IF spawn THEN NextTimer(interval, Rand(0)) ELSE t1
           /\ rpos' = IF spawn THEN (rpos + 4) % Len(Tapes[tape]) ELSE rpos
           /\ made' = IF spawn THEN made + 1 ELSE made
           /\ cars' = end.cars
           /\ passed' = acc.passed
           /\ score' = acc.score
           /\ global_speed' = acc.global_speed
           /\ running' = end.running
    /\ before' = Snapshot
    /\ pc' = "frame"
    /\ UNCHANGED <<tape, height, player_lane, dt>>

\* ----------------------------------------------------------- specifications
Keys == {"none", "q", "left", "right"}

\* The driver loop on small terminals, every key, frame times up to a stall.
Heights == {1, 2, 3, 4}
Elapsed == {0, 5, 20, 100}

Next ==
    \/ SetupDimensions(Heights)
    \/ SeedCar
    \/ FrameStart(Elapsed, MaxCars)
    \/ HandleInput(Keys)
    \/ Update
    \/ GameOver

Spec == Init /\ [][Next]_vars

\* Long runs: frames of 0 or 0.2 s on a terminal of 1 line or of 13, the
\* player staying in the middle lane.
NextLong ==
    \/ SetupDimensions({1, 3, 13})
    \/ SeedCar
    \/ FrameStart({0, 20}, MaxCarsLong)
    \/ HandleInput({"none", "q"})
    \/ Update
    \/ GameOver

SpecLong == Init /\ [][NextLong]_vars

\* Runs in which every frame lasts 0.2 s and the player moves at will.  The
\* loop of Game.loop is one thread that goes on for as long as self.running
\* holds, so a step that is possible is taken in the end.
NextLive ==
    \/ SetupDimensions({1, 3})
    \/ SeedCar
    \/ FrameStart({20}, MaxCarsLive)
    \/ HandleInput({"none", "left", "right"})
    \/ Update
    \/ GameOver

\* The call of update in a frame returns.  Under NextLive the steps from
\* "update" to "frame" are the Update steps, and Update can be taken whenever
\* pc = "update".
UpdateReturns == pc = "update" /\ pc' = "frame"

SpecLive ==
    /\ Init
    /\ [][NextLive]_vars
    /\ WF_vars(SetupDimensions({1, 3}))
    /\ WF_vars(SeedCar)
    /\ WF_vars(FrameStart({20}, MaxCarsLive))
    /\ WF_vars(HandleInput({"none", "left", "right"}))
    /\ WF_pc(UpdateReturns)
    /\ WF_vars(GameOver)

\* ------------------------------------------------------------------ claims
Floor(y) == y \div RowUnit

\* Round half up: floor(y + 1/2).
RoundHalfUp(y) == (2 * y + RowUnit) \div (2 * RowUnit)

\* Row r is the nearest row to y, a tie counting for an even r only.
NearestRowIs(y, r) ==
    LET d2 == 2 * (y - r * RowUnit)
    IN  \/ -RowUnit < d2 /\ d2 < RowUnit
        \/ (d2 = RowUnit \/ d2 = -RowUnit) /\ r % 2 = 0

IsTie(y) == (2 * y) % (2 * RowUnit) = RowUnit

Ids(cs) == {cs[i].id : i \in 1..Len(cs)}

\* The position of car c after the motion of a tick with multiplier gs.
Moved(c, gs, d) == c.y + BASE_LANE_SPEEDS[c.lane + 1] * gs * d

\* C1: a tick on a state whose running flag is false changes no field.
C1_DeadTickIsNoOp ==
    [][(pc = "update" /\ ~running) =>
         UNCHANGED <<cars, passed, score, global_speed, spawn_timer, running>>]_vars

\* C2 as stated, nearest row with a tie rounded up: after a tick running is
\* false iff it was false or a car left in the collection is in the player's
\* lane with its position rounded half up equal to player_row.
C2_HalfUpCollision ==
    [][pc = "update" =>
         (running' = (running /\ ~(\E i \in 1..Len(cars') :
              /\ RoundHalfUp(cars'[i].y) = player_row(height)
              /\ cars'[i].lane = player_lane)))]_vars

\* C2 amended: the same with a tie rounded to the even row.
C2_CollisionRule ==
    [][pc = "update" =>
         (running' = (running /\ ~(\E i \in 1..Len(cars') :
              /\ NearestRowIs(cars'[i].y, player_row(height))
              /\ cars'[i].lane = player_lane)))]_vars

\* A tick ended the run on a car exactly halfway between two rows.
C2_Witness ==
    /\ pc = "frame" /\ before.running /\ ~running
    /\ \E i \in 1..Len(cars) :
         /\ IsTie(cars[i].y)
         /\ cars[i].lane = player_lane
         /\ NearestRowIs(cars[i].y, player_row(height))

\* C3: a tick removes and counts exactly the cars whose position after the
\* motion, floored to a row, is >= player_row + 1.
C3_PassByFloor ==
    [][pc = "update" =>
         LET all  == IF made' > made THEN Append(cars, spawn_car(1)) ELSE cars
             gone == {i \in 1..Len(all) :
                        Floor(Moved(all[i], global_speed, dt)) >= player_row(height) + 1}
         IN  /\ Ids(cars') = {all[i].id : i \in (1..Len(all)) \ gone}
             /\ passed' = passed + Cardinality(gone)
             /\ score' = score + Cardinality(gone)]_vars

\* The product by 1.22, n times.
RECURSIVE Times122(_, _)
Times122(gs, n) == IF n = 0 THEN gs ELSE Times122((gs * 122 + 50) \div 100, n - 1)

\* C4: a tick multiplies global_speed by 1.22 once for each multiple of 10
\* that passed reaches in it, which makes it strictly greater, and leaves it
\* unchanged when passed reaches none.
C4_RampRule ==
    [][pc = "update" =>
         LET n == (passed' \div 10) - (passed \div 10)
         IN  /\ global_speed' = Times122(global_speed, n)
             /\ n > 0 => global_speed' > global_speed
             /\ n = 0 => global_speed' = global_speed]_vars

\* A tick took passed from 9 to 11 and the multiplier went up.
C4_Witness ==
    /\ pc = "frame" /\ before.passed = 9 /\ passed = 11
    /\ global_speed > before.global_speed

\* C5: a tick that ends the run leaves in the collection a car that is in
\* the player's lane on the player's row; a car it removed is never the cause.
C5_PassedNeverCollides ==
    [][(pc = "update" /\ running /\ ~running') =>
         \E i \in 1..Len(cars') :
             /\ cars'[i].id \in Ids(cars) \cup {made}
             /\ cars'[i].lane = player_lane
             /\ NearestRowIs(cars'[i].y, player_row(height))]_vars

\* A tick removed a car that was in the player's lane on the player's row,
\* and the run goes on.
C5_Witness ==
    /\ pc = "frame" /\ before.running /\ running
    /\ \E i \in 1..Len(before.cars) :
         LET c == before.cars[i]
         IN  /\ c.id \notin Ids(cars)
             /\ c.lane = player_lane
             /\ NearestRowIs(Moved(c, before.global_speed, dt), player_row(height))

\* C6: after the seeding and before the first tick the multiplier is 1.0,
\* passed and score are 0, running is true and there are 6 cars, each with
\* its lane in range and its position strictly negative.
C6_InitialState ==
    (pc = "seed" /\ made = SEED_CARS) =>
        /\ global_speed = SpeedUnit /\ passed = 0 /\ score = 0 /\ running
        /\ Len(cars) = 6
        /\ \A i \in 1..Len(cars) :
             cars[i].lane \in 0..(LANE_COUNT - 1) /\ cars[i].y < 0

\* C7: no step lowers global_speed.
C7_SpeedNonDecreasing == [][global_speed' >= global_speed]_vars

\* A tick raised the multiplier a second time.
C7_Witness ==
    pc = "frame" /\ before.global_speed > SpeedUnit /\ global_speed > before.global_speed

\* C8: every car of the collection has its lane in 0..LANE_COUNT-1, and a
\* step changes neither the lane nor the art of a car it keeps.
C8_LaneFixedInRange ==
    [][/\ \A i \in 1..Len(cars') : cars'[i].lane \in 0..(LANE_COUNT - 1)
       /\ \A i \in 1..Len(cars) : \A j \in 1..Len(cars') :
            cars[i].id = cars'[j].id =>
                cars[i].lane = cars'[j].lane /\ cars[i].art = cars'[j].art]_vars

\* A tick moved a car of the last lane and kept it.
C8_Witness ==
    /\ pc = "frame"
    /\ \E i \in 1..Len(before.cars) : \E j \in 1..Len(cars) :
         /\ before.cars[i].id = cars[j].id
         /\ cars[j].y > before.cars[i].y
         /\ cars[j].lane = LANE_COUNT - 1

\* C9: score and passed are never negative and global_speed never below 1.0.
C9_Bounds == score >= 0 /\ passed >= 0 /\ global_speed >= SpeedUnit

\* Many ticks later: 90 cars passed.
C9_Witness == pc = "frame" /\ passed >= 90 /\ score >= 90 /\ global_speed > SpeedUnit

\* t <= 1.4 * I and 0.6 * I <= t for I = max(0.15, 0.8 / (gs * 0.9)), t in
\* centiseconds and gs in thousandths.
AtMost14(t, gs) == 10 * t <= 14 * 15 \/ 10 * t * 9 * gs <= 14 * 800000
AtLeast06(t, gs) == 10 * t >= 6 * 15 /\ 10 * t * 9 * gs >= 6 * 800000

\* I(g2) <= I(g1).
IntervalNotLonger(g1, g2) ==
    \/ 800000 <= 15 * 9 * g2
    \/ g1 <= g2

\* C10: a tick spawns one car when spawn_timer - dt <= 0 and none otherwise;
\* on a spawn the timer is reset into [0.6 I, 1.4 I] for the multiplier the
\* tick started with, so to 0.09 s at least; otherwise it is spawn_timer - dt;
\* and I is no longer after the tick than before.
C10_SpawnCadence ==
    [][pc = "update" =>
         LET due == spawn_timer - dt <= 0
         IN  /\ made' - made = (IF due THEN 1 ELSE 0)
             /\ due => /\ AtLeast06(spawn_timer', global_speed)
                       /\ AtMost14(spawn_timer', global_speed)
                       /\ spawn_timer' >= 9
             /\ ~due => spawn_timer' = spawn_timer - dt
             /\ IntervalNotLonger(global_speed, global_speed')]_vars

\* A tick longer than the timer it set: the interval is at its floor, the
\* timer was reset to 0.09 s and one car was made.
C10_Witness ==
    /\ pc = "frame" /\ made = before.made + 1
    /\ spawn_timer = 9 /\ dt > spawn_timer
    /\ 800000 < 15 * 9 * before.global_speed

\* C11: a tick adds dt * BASE_LANE_SPEEDS[lane] * m to the position of every
\* car it keeps, the one it spawned included, m being global_speed as the
\* tick found it, also when the tick ramped before it reached the car.
C11_MotionRule ==
    [][pc = "update" =>
         \A j \in 1..Len(cars') :
             /\ \A i \in 1..Len(cars) :
                  cars[i].id = cars'[j].id =>
                      cars'[j].y = cars[i].y
                          + dt * BASE_LANE_SPEEDS[cars[i].lane + 1] * global_speed
             /\ cars'[j].id \notin Ids(cars) =>
                  cars'[j].y = spawn_car(1).y
                      + dt * BASE_LANE_SPEEDS[cars'[j].lane + 1] * global_speed]_vars

\* A tick of 0.2 s ramped on a car it removed and then moved a later car by
\* the amount the old multiplier gives.
C11_Witness ==
    /\ pc = "frame" /\ dt > 0 /\ global_speed > before.global_speed
    /\ \E i \in 1..Len(before.cars) : \E k \in 1..Len(before.cars) : \E j \in 1..Len(cars) :
         /\ i < k
         /\ before.cars[i].id \notin Ids(cars)
         /\ before.cars[k].id = cars[j].id
         /\ cars[j].y = before.cars[k].y
              + dt * BASE_LANE_SPEEDS[cars[j].lane + 1] * before.global_speed

\* C12: player_lane is one of the lanes 0..LANE_COUNT-1 in every reachable
\* state: it starts at LANE_COUNT // 2 and no sequence of left and right
\* keys, interleaved with ticks, takes it out of the range.
C12_PlayerLaneInRange ==
    /\ player_lane \in 0..(LANE_COUNT - 1)
    /\ pc = "setup" => player_lane = LANE_COUNT \div 2

\* The key of a frame has been handled and the player is on the rightmost
\* lane, two moves from the start.
C12_Witness ==
    /\ pc = "update"
    /\ player_lane = LANE_COUNT - 1
    /\ made > SEED_CARS

\* The tick as a sequence of phases, each over the whole collection:
\* spawner, motion, pass detection with the ramp, collision detection.
PhaseSpawn == IF spawn_timer - dt <= 0 THEN Append(cars, spawn_car(1)) ELSE cars
PhaseMove == [i \in 1..Len(PhaseSpawn) |->
                 [PhaseSpawn[i] EXCEPT !.y = Moved(PhaseSpawn[i], global_speed, dt)]]
PhasePassing == {i \in 1..Len(PhaseMove) : HasPassed(PhaseMove[i].y, height)}
PhasePassed == passed + Cardinality(PhasePassing)
PhaseSpeed ==
    Times122(global_speed, PhasePassed \div RAMP_EVERY - passed \div RAMP_EVERY)
PhaseLeft == SelectSeq(PhaseMove, LAMBDA c : ~HasPassed(c.y, height))
PhaseRunning ==
    running /\ ~\E i \in 1..Len(PhaseLeft) : Collides(PhaseLeft[i], height, player_lane)

\* C13: the tick of the code (one loop that moves a car and at once tests it
\* and ramps, then the removal, then the collision check) ends in the state
\* the phases give: spawner, motion of all cars, pass detection with ramp
\* over all cars, collision detection over the cars left.
C13_PhaseOrder ==
    [][pc = "update" =>
         /\ cars' = PhaseLeft
         /\ passed' = PhasePassed
         /\ score' = score + Cardinality(PhasePassing)
         /\ global_speed' = PhaseSpeed
         /\ running' = PhaseRunning]_vars

\* A tick that spawned, passed two cars or more with a ramp among them, and
\* kept a car.
C13_Witness ==
    /\ pc = "frame" /\ dt > 0
    /\ made > before.made
    /\ passed >= before.passed + 2
    /\ global_speed > before.global_speed
    /\ cars # <<>>

\* Position y rounds to a row above row r (round half to even).
RoundsBelow(y, r) ==
    \/ 2 * y < (2 * r - 1) * RowUnit
    \/ 2 * y = (2 * r - 1) * RowUnit /\ (r - 1) % 2 = 0

\* C14: with dt at most 0.2 s and any multiplier a run reaches, no car of the
\* player's lane goes in one tick from a position that rounds to a row before
\* player_row to being counted as passed.  Stated for a live run with the
\* player's row on the screen.
C14_NoTunnelling ==
    [][(pc = "update" /\ running /\ player_row(height) >= 0) =>
         \A i \in 1..Len(cars) :
             (cars[i].lane = player_lane
                /\ RoundsBelow(cars[i].y, player_row(height)))
             => cars[i].id \in Ids(cars')]_vars

\* C15: in every reachable state global_speed is 1.22 to the power
\* floor(passed / 10): one ramp for each multiple of 10 that passed reached.
C15_RampClosedForm ==
    global_speed = Times122(SpeedUnit, passed \div RAMP_EVERY)

\* A run with ten ramps behind it, between two multiples of 10.
C15_Witness ==
    /\ pc = "frame"
    /\ passed > 10 * RAMP_EVERY
    /\ passed % RAMP_EVERY # 0
    /\ global_speed = Times122(SpeedUnit, 10)

\* C16: the cars in the collection plus passed is the number of cars made,
\* the 6 seeded ones plus one for each spawn of a tick: no car leaves the
\* collection uncounted and none is counted twice.
C16_Conservation ==
    /\ Len(cars) + passed = made
    /\ pc \notin {"setup", "seed"} => made >= SEED_CARS
    /\ \A i \in 1..Len(cars) : \A j \in 1..Len(cars) :
         cars[i].id = cars[j].id => i = j

\* A tick that spawned a car and removed two or more, with cars left.
C16_Witness ==
    /\ pc = "frame"
    /\ made = before.made + 1
    /\ passed >= before.passed + 2
    /\ Len(cars) >= 2
    /\ Len(cars) + passed = SEED_CARS + (made - SEED_CARS)

\* C17: score and passed are equal in every reachable state: a step changes
\* both by the same amount and lowers neither.
C17_ScoreIsPassed ==
    [][/\ score' = passed'
       /\ score' - score = passed' - passed
       /\ passed' >= passed]_vars

\* A tick that counted cars, fifty passes into the run.
C17_Witness ==
    /\ pc = "frame"
    /\ passed > before.passed
    /\ passed >= 50
    /\ score = passed

InCars(id) == \E i \in 1..Len(cars) : cars[i].id = id

\* The cars a step takes out of the collection, the car of its spawn included.
Removed == {c \in {PhaseMove[i] : i \in 1..Len(PhaseMove)} : c.id \notin Ids(cars')}

\* C18: while the run is alive and frames of 0.2 s keep coming, every
\* car in the collection is removed in the end, and a car leaves the
\* collection only in a tick whose motion took it past the player's row and
\* that counted it.  The seeded cars leave within the cars a run makes; for a
\* later car the run may reach that number first.
C18_Lifetime ==
    /\ [][/\ cars' # cars => pc \in {"seed", "update"}
          /\ pc = "update" =>
               /\ \A c \in Removed : HasPassed(c.y, height)
               /\ passed' = passed + Cardinality(Removed)
          /\ pc # "update" => Ids(cars) \subseteq Ids(cars')]_vars
    /\ \A id \in 0..(SEED_CARS - 1) :
         InCars(id) ~> (~InCars(id) \/ ~running)
    /\ \A id \in SEED_CARS..(MaxCarsLive - 1) :
         InCars(id) ~> (~InCars(id) \/ ~running \/ made >= MaxCarsLive)

\* A seeded car left the collection in a tick of a live run, four or more
\* spawns after the seeding.
C18_Witness ==
    /\ pc = "frame" /\ running /\ dt > 0
    /\ made >= SEED_CARS + 4
    /\ \E i \in 1..Len(before.cars) :
         /\ before.cars[i].id < SEED_CARS
         /\ ~InCars(before.cars[i].id)

====
